---------------------------- MODULE Spec2Model ----------------------------
(***************************************************************************)
(* A model of the STC decoder (src/src/stc/loading.py): parse_key,         *)
(* parse_value, fill_in_value, finalize_dict and the line scanner of       *)
(* loads, together with the callers that hold and mutate returned values.  *)
(*                                                                         *)
(* A Python str is a sequence of one-character strings.  A Python dict is  *)
(* the sequence of its <<key, value>> items in insertion order.            *)
(***************************************************************************)
EXTENDS Integers, Sequences, FiniteSets, TLC

VARIABLES
    rust_loads,       \* module level: "None" or "available" (loading.py 5-8)
    enum_value,       \* the two objects EmptyObject.EMPTY_LIST.value / EMPTY_DICT.value
    pc,               \* position of the running loads call: idle, scan, done
    stc_str,          \* loads' argument
    impl,             \* loads' argument
    lines,            \* loads' local
    line_num,         \* loads' local (0-based, as enumerate gives it)
    in_a_string,      \* loads' local
    string_value,     \* loads' local
    bt_count,         \* loads' local
    string_key_path,  \* loads' local (<<>> is None, <<path>> a path)
    parsed,           \* loads' local: the intermediate tree (items of the root dict)
    outcome,          \* what the call returned or raised
    ran,              \* which parts of loads the call went through
    given,            \* the caller's input before it was written as text
    held,             \* values the caller got back and still holds
    held_seen,        \* what the caller expects each held value to be
    applied,          \* the last direct application of a helper function
    assigned          \* the paths inserted successfully into parsed so far

vars == <<rust_loads, enum_value, pc, stc_str, impl, lines, line_num,
          in_a_string, string_value, bt_count, string_key_path, parsed,
          outcome, ran, given, held, held_seen, applied, assigned>>

-----------------------------------------------------------------------------
(* Characters and the str methods the decoder uses.                        *)

LowerSeq == <<"a","b","c","d","e","f","g","h","i","j","k","l","m",
              "n","o","p","q","r","s","t","u","v","w","x","y","z">>
UpperSeq == <<"A","B","C","D","E","F","G","H","I","J","K","L","M",
              "N","O","P","Q","R","S","T","U","V","W","X","Y","Z">>
DigitSeq == <<"0","1","2","3","4","5","6","7","8","9">>

Range(s) == {s[i] : i \in DOMAIN s}
Letters == Range(LowerSeq) \cup Range(UpperSeq)
Digits == Range(DigitSeq)
Whitespace == {" ", "\t", "\r", "\n"}
\* The backtick character.  SANY accepts no backtick inside a string, so the
\* apostrophe stands for it wherever the source text has a backtick.
Tick == "'"

DigitVal(c) == (CHOOSE i \in DOMAIN DigitSeq : DigitSeq[i] = c) - 1

ToLower(c) ==
    IF \E i \in DOMAIN UpperSeq : UpperSeq[i] = c
    THEN LowerSeq[CHOOSE i \in DOMAIN UpperSeq : UpperSeq[i] = c]
    ELSE c

LowerStr(s) == [i \in DOMAIN s |-> ToLower(s[i])]

\* s[n:] for 0 <= n
Drop(s, n) == SubSeq(s, n + 1, Len(s))

\* s[:-1]
DropLast(s) == SubSeq(s, 1, Len(s) - 1)

RECURSIVE lstrip(_)
lstrip(s) ==
    IF s # <<>> /\ s[1] \in Whitespace THEN lstrip(Tail(s)) ELSE s

RECURSIVE rstrip(_)
rstrip(s) ==
    IF s # <<>> /\ s[Len(s)] \in Whitespace THEN rstrip(DropLast(s)) ELSE s

strip(s) == lstrip(rstrip(s))

\* s.lstrip(backtick)
RECURSIVE lstrip_ticks(_)
lstrip_ticks(s) ==
    IF s # <<>> /\ s[1] = Tick THEN lstrip_ticks(Tail(s)) ELSE s

\* backtick * n
RECURSIVE Ticks(_)
Ticks(n) == IF n <= 0 THEN <<>> ELSE <<Tick>> \o Ticks(n - 1)

\* prefix in s.startswith(prefix)
startswith(s, prefix) ==
    Len(s) >= Len(prefix) /\ SubSeq(s, 1, Len(prefix)) = prefix

\* c in s
Contains(s, c) == \E i \in DOMAIN s : s[i] = c

FirstIndex(s, c) == CHOOSE i \in DOMAIN s : s[i] = c /\ \A j \in 1..(i - 1) : s[j] # c

\* s.split(sep) for a one-character sep
RECURSIVE split(_, _)
split(s, sep) ==
    IF ~Contains(s, sep) THEN <<s>>
    ELSE LET i == FirstIndex(s, sep)
         IN  <<SubSeq(s, 1, i - 1)>> \o split(Drop(s, i), sep)

\* s.split(sep, 1) when sep occurs in s
split_once(s, sep) ==
    LET i == FirstIndex(s, sep)
    IN  <<SubSeq(s, 1, i - 1), Drop(s, i)>>

\* sep.join(pieces)
RECURSIVE join(_, _)
join(pieces, sep) ==
    IF pieces = <<>> THEN <<>>
    ELSE IF Len(pieces) = 1 THEN pieces[1]
    ELSE pieces[1] \o sep \o join(Tail(pieces), sep)

\* str.isidentifier on the characters of this model
isidentifier(s) ==
    /\ s # <<>>
    /\ s[1] \in Letters \cup {"_"}
    /\ \A i \in DOMAIN s : s[i] \in Letters \cup Digits \cup {"_"}

\* str.isnumeric on the characters of this model
isnumeric(s) ==
    /\ s # <<>>
    /\ \A i \in DOMAIN s : s[i] \in Digits

\* a digit, then digits each optionally preceded by one underscore
IsDigitPart(s) ==
    /\ s # <<>>
    /\ s[1] \in Digits
    /\ s[Len(s)] \in Digits
    /\ \A i \in DOMAIN s : s[i] \in Digits \cup {"_"}
    /\ \A i \in 1..(Len(s) - 1) : ~(s[i] = "_" /\ s[i + 1] = "_")

RECURSIVE DigitsValue(_)
DigitsValue(s) ==
    IF s = <<>> THEN 0
    ELSE IF s[Len(s)] = "_" THEN DigitsValue(DropLast(s))
    ELSE 10 * DigitsValue(DropLast(s)) + DigitVal(s[Len(s)])

Unsigned(s) == IF s # <<>> /\ s[1] \in {"+", "-"} THEN Tail(s) ELSE s
SignOf(s) == IF s # <<>> /\ s[1] = "-" THEN -1 ELSE 1

\* int(s): [ok, v]; ok = FALSE is ValueError
int(s) ==
    LET t == strip(s)
        u == Unsigned(t)
    IN  IF IsDigitPart(u)
        THEN [ok |-> TRUE, v |-> SignOf(t) * DigitsValue(u)]
        ELSE [ok |-> FALSE, v |-> 0]


\* the value of a decimal literal: sign * mant * 10^exp, mant without trailing zeros
RECURSIVE Normal(_, _)
Normal(mant, exp) ==
    IF mant = 0 THEN [mant |-> 0, exp |-> 0]
    ELSE IF mant % 10 = 0 THEN Normal(mant \div 10, exp + 1)
    ELSE [mant |-> mant, exp |-> exp]

NoUnderscore(s) == SelectSeq(s, LAMBDA c : c # "_")

FloatValue(sign, special, mant, exp) ==
    [t |-> "float", sign |-> sign, special |-> special,
     mant |-> Normal(mant, exp).mant, exp |-> Normal(mant, exp).exp]

\* float(s): [ok, v]; ok = FALSE is ValueError
float(s) ==
    LET t == strip(s)
        u == Unsigned(t)
        low == LowerStr(u)
        hasE == Contains(low, "e")
        m == IF hasE THEN split_once(low, "e")[1] ELSE low
        x == IF hasE THEN split_once(low, "e")[2] ELSE <<>>
        hasDot == Contains(m, ".")
        ip == IF hasDot THEN split_once(m, ".")[1] ELSE m
        fp == IF hasDot THEN split_once(m, ".")[2] ELSE <<>>
        mantOk == IF hasDot
                  THEN \/ IsDigitPart(ip) /\ (fp = <<>> \/ IsDigitPart(fp))
                       \/ ip = <<>> /\ IsDigitPart(fp)
                  ELSE IsDigitPart(ip)
        expOk == ~hasE \/ IsDigitPart(Unsigned(x))
        e == IF hasE THEN SignOf(x) * DigitsValue(Unsigned(x)) ELSE 0
    IN  IF low \in {<<"i","n","f">>, <<"i","n","f","i","n","i","t","y">>}
        THEN [ok |-> TRUE, v |-> FloatValue(SignOf(t), "inf", 0, 0)]
        ELSE IF low = <<"n","a","n">>
        THEN [ok |-> TRUE, v |-> FloatValue(SignOf(t), "nan", 0, 0)]
        ELSE IF mantOk /\ expOk
        THEN [ok |-> TRUE,
              v |-> FloatValue(SignOf(t), "",
                               DigitsValue(ip \o fp),
                               e - Len(NoUnderscore(fp)))]
        ELSE [ok |-> FALSE, v |-> FloatValue(1, "", 0, 0)]

-----------------------------------------------------------------------------
(* Values.  A leaf is an int, float, bool, str or EmptyObject member; a    *)
(* dict holds its items in insertion order; a list holds its elements.     *)
(* The two EmptyObject members each own one object (a list, a dict), which *)
(* every use of .value refers to: a "ref" names that object.               *)

PyInt(n) == [t |-> "int", v |-> n]
PyBool(b) == [t |-> "bool", b |-> b]
PyStr(s) == [t |-> "str", s |-> s]
PyDict(items) == [t |-> "dict", items |-> items]
PyList(items) == [t |-> "list", items |-> items]
PyNone == [t |-> "None"]
EMPTY_LIST == [t |-> "EmptyObject", member |-> "EMPTY_LIST"]
EMPTY_DICT == [t |-> "EmptyObject", member |-> "EMPTY_DICT"]
\* member.value: the one object the Enum member was created with
ValueOf(e) == [t |-> "ref", obj |-> e.member]

isinstance_dict(v) == v.t = "dict"
isinstance_EmptyObject(v) == v.t = "EmptyObject"

Keys(items) == [i \in DOMAIN items |-> items[i][1]]
Has(items, k) == \E i \in DOMAIN items : items[i][1] = k
Get(items, k) == items[CHOOSE i \in DOMAIN items : items[i][1] = k][2]
\* d[k] = v on a dict that lists its newest key first
Put_newest_first(items, k, v) ==
    IF \E i \in DOMAIN items : items[i][1] = k
    THEN [i \in DOMAIN items |-> IF items[i][1] = k THEN <<k, v>> ELSE items[i]]
    ELSE <<<<k, v>>>> \o items

\* d[k] = v: a new key goes last, a present key keeps its place
Put(items, k, v) ==
    IF Has(items, k)
    THEN [i \in DOMAIN items |-> IF items[i][1] = k THEN <<k, v>> ELSE items[i]]
    ELSE Append(items, <<k, v>>)

-----------------------------------------------------------------------------
(* Exceptions.  ln is <<>> for None and <<n>> for line n.                  *)

NoExc == [type |-> "none", what |-> "", ln |-> <<>>]
Exc(type, what, ln) == [type |-> type, what |-> what, ln |-> ln]
Raised(r) == r.exc.type # "none"

raise_parse_error(message, ln) == Exc("STCParseError", message, ln)

-----------------------------------------------------------------------------
(* parse_key                                                               *)

\* one turn of the loop over pieces: the exception it raises, or NoExc
parse_key_piece(piece, ln) ==
    IF ~isidentifier(piece)
    THEN raise_parse_error("Invalid key. Key must be a valid identifier.", ln)
    ELSE IF piece[1] = "$"
    THEN IF ~isnumeric(Drop(piece, 1))
         THEN raise_parse_error("Invalid key. List index must be $numeric.", ln)
         ELSE IF int(Drop(piece, 1)).v < 0
         THEN raise_parse_error("Negative list index in key.", ln)
         ELSE NoExc
    ELSE NoExc

parse_key(key, ln) ==
    LET pieces == split(key, ".")
        bad == {i \in DOMAIN pieces : parse_key_piece(pieces[i], ln) # NoExc}
    IN  IF bad # {}
        THEN [exc |-> parse_key_piece(pieces[CHOOSE i \in bad : \A j \in bad : i <= j], ln),
              path |-> <<>>]
        ELSE [exc |-> NoExc, path |-> pieces]

-----------------------------------------------------------------------------
(* parse_value: [exc, value, is_string]; for a string block start, value   *)
(* is the int bt_count.                                                    *)

TRUE_LITERAL == <<Tick, "t", "r", "u", "e", Tick>>
FALSE_LITERAL == <<Tick, "f", "a", "l", "s", "e", Tick>>

\* parse_value with a test added after line 81: text after the run of
\* backticks is an invalid value
parse_value_bare_fence_only(value, ln) ==
    IF value = TRUE_LITERAL
    THEN [exc |-> NoExc, value |-> PyBool(TRUE), is_string |-> FALSE]
    ELSE IF value = FALSE_LITERAL
    THEN [exc |-> NoExc, value |-> PyBool(FALSE), is_string |-> FALSE]
    ELSE IF value = <<"[", "]">>
    THEN [exc |-> NoExc, value |-> EMPTY_LIST, is_string |-> FALSE]
    ELSE IF value = <<"{", "}">>
    THEN [exc |-> NoExc, value |-> EMPTY_DICT, is_string |-> FALSE]
    ELSE IF int(value).ok
    THEN [exc |-> NoExc, value |-> PyInt(int(value).v), is_string |-> FALSE]
    ELSE IF float(value).ok
    THEN [exc |-> NoExc, value |-> float(value).v, is_string |-> FALSE]
    ELSE IF ~startswith(value, Ticks(3)) \/ lstrip_ticks(value) # <<>>
    THEN [exc |-> raise_parse_error("Invalid value.", ln),
          value |-> PyNone, is_string |-> FALSE]
    ELSE [exc |-> NoExc,
          value |-> PyInt(Len(value) - Len(lstrip_ticks(value))),
          is_string |-> TRUE]

parse_value(value, ln) ==
    IF value = TRUE_LITERAL
    THEN [exc |-> NoExc, value |-> PyBool(TRUE), is_string |-> FALSE]
    ELSE IF value = FALSE_LITERAL
    THEN [exc |-> NoExc, value |-> PyBool(FALSE), is_string |-> FALSE]
    ELSE IF value = <<"[", "]">>
    THEN [exc |-> NoExc, value |-> EMPTY_LIST, is_string |-> FALSE]
    ELSE IF value = <<"{", "}">>
    THEN [exc |-> NoExc, value |-> EMPTY_DICT, is_string |-> FALSE]
    ELSE IF int(value).ok
    THEN [exc |-> NoExc, value |-> PyInt(int(value).v), is_string |-> FALSE]
    ELSE IF float(value).ok
    THEN [exc |-> NoExc, value |-> float(value).v, is_string |-> FALSE]
    ELSE IF ~startswith(value, Ticks(3))
    THEN [exc |-> raise_parse_error("Invalid value.", ln),
          value |-> PyNone, is_string |-> FALSE]
    ELSE [exc |-> NoExc,
          value |-> PyInt(Len(value) - Len(lstrip_ticks(value))),
          is_string |-> TRUE]

-----------------------------------------------------------------------------
(* fill_in_value: [exc, items], items being the root dict after the call   *)
(* (the dict is changed in place, so it is what the caller sees even when  *)
(* the call raises).                                                       *)

\* the message of line 109 reads current[piece], piece being the variable of
\* the loop over path[:-1]: unbound when that loop had no turn
duplicate_leaf_error(path, current) ==
    IF Len(path) = 1
    THEN Exc("UnboundLocalError", "piece", <<>>)
    ELSE IF ~Has(current, path[Len(path) - 1])
    THEN Exc("KeyError", "current[piece]", <<>>)
    ELSE raise_parse_error("Key is set at least two values.", <<>>)

RECURSIVE fill_walk(_, _, _, _)
fill_walk(path, i, value, current) ==
    IF i < Len(path)
    THEN LET piece == path[i]
         IN  IF ~Has(current, piece)
             THEN LET sub == fill_walk(path, i + 1, value, <<>>)
                  IN  [exc |-> sub.exc,
                       items |-> Put(current, piece, PyDict(sub.items))]
             ELSE IF ~isinstance_dict(Get(current, piece))
             THEN [exc |-> raise_parse_error(
                             "Key is set both a value and at least one list item / dict attribute.",
                             <<>>),
                   items |-> current]
             ELSE LET sub == fill_walk(path, i + 1, value, Get(current, piece).items)
                  IN  [exc |-> sub.exc,
                       items |-> Put(current, piece, PyDict(sub.items))]
    ELSE LET last_piece == path[Len(path)]
         IN  IF Has(current, last_piece)
             THEN IF isinstance_dict(Get(current, last_piece))
                  THEN [exc |-> raise_parse_error(
                                  "Key is set both a value directly and at least one list item / dict attribute.",
                                  <<>>),
                        items |-> current]
                  ELSE [exc |-> duplicate_leaf_error(path, current),
                        items |-> current]
             ELSE [exc |-> NoExc, items |-> Put(current, last_piece, value)]

\* fill_in_value without the check of line 99: a leaf met on the way is
\* replaced by a new dict
RECURSIVE fill_walk_unchecked(_, _, _, _)
fill_walk_unchecked(path, i, value, current) ==
    IF i < Len(path)
    THEN LET piece == path[i]
             below == IF Has(current, piece) /\ isinstance_dict(Get(current, piece))
                      THEN Get(current, piece).items ELSE <<>>
             sub == fill_walk_unchecked(path, i + 1, value, below)
         IN  [exc |-> sub.exc, items |-> Put(current, piece, PyDict(sub.items))]
    ELSE fill_walk(path, i, value, current)

fill_in_value_unchecked(path, value, parsed_items) ==
    fill_walk_unchecked(path, 1, value, parsed_items)

\* fill_in_value with lines 108-109 left out: a leaf that is set again takes
\* the new value
RECURSIVE fill_walk_last_wins(_, _, _, _)
fill_walk_last_wins(path, i, value, current) ==
    IF i < Len(path)
    THEN LET piece == path[i]
         IN  IF ~Has(current, piece)
             THEN LET sub == fill_walk_last_wins(path, i + 1, value, <<>>)
                  IN  [exc |-> sub.exc,
                       items |-> Put(current, piece, PyDict(sub.items))]
             ELSE IF ~isinstance_dict(Get(current, piece))
             THEN [exc |-> raise_parse_error(
                             "Key is set both a value and at least one list item / dict attribute.",
                             <<>>),
                   items |-> current]
             ELSE LET sub == fill_walk_last_wins(path, i + 1, value, Get(current, piece).items)
                  IN  [exc |-> sub.exc,
                       items |-> Put(current, piece, PyDict(sub.items))]
    ELSE LET last_piece == path[Len(path)]
         IN  IF Has(current, last_piece) /\ isinstance_dict(Get(current, last_piece))
             THEN [exc |-> raise_parse_error(
                             "Key is set both a value directly and at least one list item / dict attribute.",
                             <<>>),
                   items |-> current]
             ELSE [exc |-> NoExc, items |-> Put(current, last_piece, value)]

fill_in_value_last_wins(path, value, parsed_items) ==
    fill_walk_last_wins(path, 1, value, parsed_items)

\* fill_in_value with the assignment of line 111 done before the test of
\* line 105: a duplicate leaf is overwritten, then reported
fill_in_value_sets_then_checks(path, value, parsed_items) ==
    LET checked == fill_walk(path, 1, value, parsed_items)
        written == fill_walk_last_wins(path, 1, value, parsed_items)
    IN  IF Raised(checked) /\ ~Raised(written)
        THEN [exc |-> checked.exc, items |-> written.items]
        ELSE checked

fill_in_value(path, value, parsed_items) == fill_walk(path, 1, value, parsed_items)

-----------------------------------------------------------------------------
(* finalize_dict: [exc, value].  Keys are non-empty (parse_key gives no    *)
(* empty piece).                                                           *)

child_prefix(prefix, key) ==
    IF prefix # <<>> THEN prefix \o <<".">> \o key ELSE key

SeqMin(s) == CHOOSE x \in Range(s) : \A y \in Range(s) : x <= y
SeqMax(s) == CHOOSE x \in Range(s) : \A y \in Range(s) : x >= y

\* min(all_indices) != 0 or max(all_indices) != len(all_indices) - 1
indices_incomplete(all_indices) ==
    SeqMin(all_indices) # 0 \/ SeqMax(all_indices) # Len(all_indices) - 1

RECURSIVE finalize_dict(_, _)
RECURSIVE finalize_list_items(_, _, _, _)
RECURSIVE finalize_dict_items(_, _, _)

\* the loop of lines 134-141, from the k-th key on
finalize_list_items(d, prefix, k, list_data) ==
    IF k > Len(d) THEN [exc |-> NoExc, value |-> PyList(list_data)]
    ELSE LET key == d[k][1]
             v == d[k][2]
             index == int(Drop(key, 1)).v
             r == finalize_dict(v.items, child_prefix(prefix, key))
         IN  IF isinstance_dict(v)
             THEN IF Raised(r) THEN [exc |-> r.exc, value |-> PyNone]
                  ELSE finalize_list_items(d, prefix, k + 1,
                           [list_data EXCEPT ![index + 1] = r.value])
             ELSE IF isinstance_EmptyObject(v)
             THEN finalize_list_items(d, prefix, k + 1,
                      [list_data EXCEPT ![index + 1] = ValueOf(v)])
             ELSE finalize_list_items(d, prefix, k + 1,
                      [list_data EXCEPT ![index + 1] = v])

\* the loop of lines 146-150, from the k-th item on; d is changed in place
finalize_dict_items(d, prefix, k) ==
    IF k > Len(d) THEN [exc |-> NoExc, value |-> PyDict(d)]
    ELSE LET key == d[k][1]
             v == d[k][2]
             r == finalize_dict(v.items, child_prefix(prefix, key))
         IN  IF isinstance_dict(v)
             THEN IF Raised(r) THEN [exc |-> r.exc, value |-> PyNone]
                  ELSE finalize_dict_items([d EXCEPT ![k] = <<key, r.value>>],
                                           prefix, k + 1)
             ELSE IF isinstance_EmptyObject(v)
             THEN finalize_dict_items([d EXCEPT ![k] = <<key, ValueOf(v)>>],
                                      prefix, k + 1)
             ELSE finalize_dict_items(d, prefix, k + 1)

\* finalize_dict without the test of lines 144-145: a dict whose first key is
\* a name is returned as a dict whatever its other keys are
finalize_dict_names_unchecked(d, prefix) ==
    IF Len(d) = 0 THEN [exc |-> NoExc, value |-> PyDict(d)]
    ELSE LET keys == Keys(d)
             all_indices == [i \in DOMAIN keys |-> int(Drop(keys[i], 1)).v]
         IN  IF keys[1][1] = "$"
             THEN IF \E i \in DOMAIN keys : keys[i][1] # "$"
                  THEN [exc |-> raise_parse_error("is set both as a list and a dict.", <<>>),
                        value |-> PyNone]
                  ELSE IF \E i \in DOMAIN keys : ~int(Drop(keys[i], 1)).ok
                  THEN [exc |-> Exc("ValueError", "int(key[1:])", <<>>), value |-> PyNone]
                  ELSE IF indices_incomplete(all_indices)
                  THEN [exc |-> raise_parse_error(
                                  "is set as a list, but not all indices are present.", <<>>),
                        value |-> PyNone]
                  ELSE finalize_list_items(d, prefix, 1,
                                           [i \in DOMAIN keys |-> PyNone])
             ELSE finalize_dict_items(d, prefix, 1)

finalize_dict(d, prefix) ==
    IF Len(d) = 0 THEN [exc |-> NoExc, value |-> PyDict(d)]
    ELSE LET keys == Keys(d)
             all_indices == [i \in DOMAIN keys |-> int(Drop(keys[i], 1)).v]
         IN  IF keys[1][1] = "$"
             THEN IF \E i \in DOMAIN keys : keys[i][1] # "$"
                  THEN [exc |-> raise_parse_error("is set both as a list and a dict.", <<>>),
                        value |-> PyNone]
                  ELSE IF \E i \in DOMAIN keys : ~int(Drop(keys[i], 1)).ok
                  THEN [exc |-> Exc("ValueError", "int(key[1:])", <<>>), value |-> PyNone]
                  ELSE IF indices_incomplete(all_indices)
                  THEN [exc |-> raise_parse_error(
                                  "is set as a list, but not all indices are present.", <<>>),
                        value |-> PyNone]
                  ELSE finalize_list_items(d, prefix, 1,
                                           [i \in DOMAIN keys |-> PyNone])
             ELSE IF \E i \in DOMAIN keys : keys[i][1] = "$"
                  THEN [exc |-> raise_parse_error("is set both as a list and a dict.", <<>>),
                        value |-> PyNone]
                  ELSE finalize_dict_items(d, prefix, 1)

-----------------------------------------------------------------------------
(* loads                                                                   *)

NL == "\n"

\* lines 167-173 with the test of line 172 moved before that of line 167
loads_entry_empty_first(str, im, rust) ==
    IF strip(str) = <<"{", "}">> THEN "empty"
    ELSE IF im = "rust"
    THEN IF rust # "None" THEN "rust_loads" ELSE "NotImplementedError"
    ELSE "scan"

\* lines 167-173: which way the call goes before the scan
loads_entry(str, im, rust) ==
    IF im = "rust"
    THEN IF rust # "None" THEN "rust_loads" ELSE "NotImplementedError"
    ELSE IF strip(str) = <<"{", "}">> THEN "empty"
    ELSE "scan"

\* line 199 with == weakened to "at least n backticks"
is_closing_fence_at_least(line, n) ==
    /\ Len(rstrip(line)) >= n
    /\ \A i \in DOMAIN rstrip(line) : rstrip(line)[i] = Tick

\* line 199
is_closing_fence(line, n) == rstrip(line) = Ticks(n)

\* line 202 left out: the newline after the last content line stays
keep_last_newline(s) == s

\* line 202
strip_last_newline(s) == DropLast(s)

Locals(ias, sv, bt, skp, p) ==
    [in_a_string |-> ias, string_value |-> sv, bt_count |-> bt,
     string_key_path |-> skp, parsed |-> p]

\* lines 182-197: one turn of the loop outside a string block
normal_line(line, n, L) ==
    LET kv == split_once(line, ":")
        key == strip(kv[1])
        pk == parse_key(key, <<n + 1>>)
        value == strip(kv[2])
        pv == parse_value(value, <<n + 1>>)
        fill == fill_in_value(pk.path, pv.value, L.parsed)
    IN  IF strip(line) = <<>> THEN [exc |-> NoExc, L |-> L]
        ELSE IF ~Contains(line, ":")
        THEN [exc |-> Exc("STCParseError", "Line missing colon.", <<n + 1>>), L |-> L]
        ELSE IF Raised(pk) THEN [exc |-> pk.exc, L |-> L]
        ELSE IF Raised(pv) THEN [exc |-> pv.exc, L |-> L]
        ELSE IF pv.is_string
        THEN [exc |-> NoExc,
              L |-> Locals(TRUE, <<>>, pv.value.v, <<pk.path>>, L.parsed)]
        ELSE [exc |-> fill.exc,
              L |-> [L EXCEPT !.parsed = fill.items]]

\* lines 199-209 without the check of line 200: a block with no content
\* line gives the empty string
string_line_unchecked(line, n, L) ==
    LET sv == strip_last_newline(L.string_value)
        fill == fill_in_value(L.string_key_path[1], PyStr(sv), L.parsed)
    IN  IF is_closing_fence(line, L.bt_count)
        THEN IF Raised(fill)
             THEN [exc |-> fill.exc,
                   L |-> Locals(FALSE, sv, L.bt_count, L.string_key_path, fill.items)]
             ELSE [exc |-> NoExc, L |-> Locals(FALSE, <<>>, -1, <<>>, fill.items)]
        ELSE [exc |-> NoExc,
              L |-> [L EXCEPT !.string_value = L.string_value \o line \o <<NL>>]]

\* lines 199-209 with line 209 done before the test of line 199: the closing
\* line becomes the last line of the string
string_line_keeps_fence(line, n, L) ==
    LET all == L.string_value \o line \o <<NL>>
        sv == strip_last_newline(all)
        fill == fill_in_value(L.string_key_path[1], PyStr(sv), L.parsed)
    IN  IF is_closing_fence(line, L.bt_count)
        THEN IF Len(L.string_value) = 0
             THEN [exc |-> Exc("STCParseError", "Empty string block.", <<n + 1>>),
                   L |-> L]
             ELSE IF Raised(fill)
             THEN [exc |-> fill.exc,
                   L |-> Locals(FALSE, sv, L.bt_count, L.string_key_path, fill.items)]
             ELSE [exc |-> NoExc, L |-> Locals(FALSE, <<>>, -1, <<>>, fill.items)]
        ELSE [exc |-> NoExc, L |-> [L EXCEPT !.string_value = all]]

\* lines 199-209 with line 207 left out: bt_count keeps the length of the
\* fence after the block is closed
string_line_keeps_bt_count(line, n, L) ==
    LET sv == strip_last_newline(L.string_value)
        fill == fill_in_value(L.string_key_path[1], PyStr(sv), L.parsed)
    IN  IF is_closing_fence(line, L.bt_count)
        THEN IF Len(L.string_value) = 0
             THEN [exc |-> Exc("STCParseError", "Empty string block.", <<n + 1>>),
                   L |-> L]
             ELSE IF Raised(fill)
             THEN [exc |-> fill.exc,
                   L |-> Locals(FALSE, sv, L.bt_count, L.string_key_path, fill.items)]
             ELSE [exc |-> NoExc, L |-> Locals(FALSE, <<>>, L.bt_count, <<>>, fill.items)]
        ELSE [exc |-> NoExc,
              L |-> [L EXCEPT !.string_value = L.string_value \o line \o <<NL>>]]

\* lines 199-209: one turn of the loop inside a string block
string_line(line, n, L) ==
    LET sv == strip_last_newline(L.string_value)
        fill == fill_in_value(L.string_key_path[1], PyStr(sv), L.parsed)
    IN  IF is_closing_fence(line, L.bt_count)
        THEN IF Len(L.string_value) = 0
             THEN [exc |-> Exc("STCParseError", "Empty string block.", <<n + 1>>),
                   L |-> L]
             ELSE IF Raised(fill)
             THEN [exc |-> fill.exc,
                   L |-> Locals(FALSE, sv, L.bt_count, L.string_key_path, fill.items)]
             ELSE [exc |-> NoExc, L |-> Locals(FALSE, <<>>, -1, <<>>, fill.items)]
        ELSE [exc |-> NoExc,
              L |-> [L EXCEPT !.string_value = L.string_value \o line \o <<NL>>]]

\* lines 181-209
loop_body(line, n, L) ==
    IF ~L.in_a_string THEN normal_line(line, n, L) ELSE string_line(line, n, L)

\* lines 210-212
loads_end(n, L) ==
    IF L.in_a_string
    THEN [exc |-> Exc("STCParseError", "Unclosed string block.", <<n + 1>>),
          value |-> PyNone]
    ELSE finalize_dict(L.parsed, <<>>)

FreshLocals == Locals(FALSE, <<>>, -1, <<>>, <<>>)

\* the for loop from its turn n on, then lines 210-212
RECURSIVE scan_from(_, _, _)
scan_from(ls, n, L) ==
    IF n = Len(ls) THEN loads_end(n - 1, L)
    ELSE LET r == loop_body(ls[n + 1], n, L)
         IN  IF Raised(r) THEN [exc |-> r.exc, value |-> PyNone]
             ELSE scan_from(ls, n + 1, r.L)

\* loads(str, impl='python') as one function of its argument: lines 172-212
loads_python(str) ==
    IF loads_entry(str, "python", "None") = "empty"
    THEN [exc |-> NoExc, value |-> PyDict(<<>>)]
    ELSE scan_from(split(str, NL), 0, FreshLocals)

NoOutcome == [exc |-> NoExc, value |-> PyNone]
NotRun == [engine |-> FALSE, core |-> FALSE]
CurrentLocals == Locals(in_a_string, string_value, bt_count, string_key_path, parsed)

SetLocals(L) ==
    /\ in_a_string' = L.in_a_string
    /\ string_value' = L.string_value
    /\ bt_count' = L.bt_count
    /\ string_key_path' = L.string_key_path
    /\ parsed' = L.parsed

\* a call of loads(str, im), up to the first turn of the loop
Enter(str, im, g) ==
    /\ pc = "idle"
    /\ stc_str' = str
    /\ impl' = im
    /\ given' = g
    /\ line_num' = -1
    /\ SetLocals(FreshLocals)
    /\ LET way == loads_entry(str, im, rust_loads)
       IN  /\ ran' = [engine |-> way \in {"rust_loads", "NotImplementedError"},
                       core |-> way \in {"empty", "scan"}]
           /\ lines' = IF way = "scan" THEN split(str, NL) ELSE <<>>
           /\ pc' = IF way = "scan" THEN "scan" ELSE "done"
           /\ outcome' =
                CASE way = "rust_loads" -> [exc |-> NoExc, value |-> [t |-> "rust_loads"]]
                  [] way = "NotImplementedError" ->
                       [exc |-> Exc("NotImplementedError",
                                    "Rust implementation is not available.", <<>>),
                        value |-> PyNone]
                  [] way = "empty" -> [exc |-> NoExc, value |-> PyDict(<<>>)]
                  [] OTHER -> NoOutcome
    /\ UNCHANGED <<rust_loads, enum_value, held, held_seen, applied, assigned>>

\* one turn of the for loop
ScanLine ==
    /\ pc = "scan"
    /\ line_num + 1 < Len(lines)
    /\ LET n == line_num + 1
           r == loop_body(lines[n + 1], n, CurrentLocals)
       IN  /\ line_num' = n
           /\ SetLocals(r.L)
           /\ IF Raised(r)
              THEN pc' = "done" /\ outcome' = [exc |-> r.exc, value |-> PyNone]
              ELSE UNCHANGED <<pc, outcome>>
    /\ UNCHANGED <<rust_loads, enum_value, stc_str, impl, lines, ran, given,
                   held, held_seen, applied, assigned>>

\* the loop is over: lines 210-212
Finish ==
    /\ pc = "scan"
    /\ line_num + 1 = Len(lines)
    /\ LET r == loads_end(line_num, CurrentLocals)
       IN  /\ outcome' = r
           /\ parsed' = IF Raised(r) \/ in_a_string \/ r.value.t # "dict"
                        THEN parsed ELSE r.value.items
    /\ pc' = "done"
    /\ UNCHANGED <<rust_loads, enum_value, stc_str, impl, lines, line_num,
                   in_a_string, string_value, bt_count, string_key_path, ran,
                   given, held, held_seen, applied, assigned>>

\* the caller takes the outcome and drops it
Return ==
    /\ pc = "done"
    /\ pc' = "idle"
    /\ stc_str' = <<>>
    /\ impl' = "rust"
    /\ lines' = <<>>
    /\ line_num' = -1
    /\ SetLocals(FreshLocals)
    /\ outcome' = NoOutcome
    /\ ran' = NotRun
    /\ given' = [kind |-> "none"]
    /\ UNCHANGED <<rust_loads, enum_value, held, held_seen, applied, assigned>>

InitCommon ==
    /\ enum_value = [EMPTY_LIST |-> <<>>, EMPTY_DICT |-> <<>>]  \* lines 10-12
    /\ pc = "idle"
    /\ stc_str = <<>>
    /\ impl = "rust"
    /\ lines = <<>>
    /\ line_num = -1
    /\ in_a_string = FALSE
    /\ string_value = <<>>
    /\ bt_count = -1
    /\ string_key_path = <<>>
    /\ parsed = <<>>
    /\ outcome = NoOutcome
    /\ ran = NotRun
    /\ given = [kind |-> "none"]
    /\ held = <<>>
    /\ held_seen = <<>>
    /\ applied = [fn |-> "none"]
    /\ assigned = {}

-----------------------------------------------------------------------------
(* Spec: loads and load on documents made of the lines below.              *)

MaxLines == 3

L_blank == <<>>
L_a_1 == <<"a", ":", " ", "1">>
L_ab_1 == <<"a", ".", "b", ":", " ", "1">>
L_a_open3 == <<"a", ":", " ", Tick, Tick, Tick>>
L_b_open4 == <<"b", ":", Tick, Tick, Tick, Tick>>
L_fence3 == <<Tick, Tick, Tick>>
L_fence3_sp == <<Tick, Tick, Tick, " ">>
L_fence4 == <<Tick, Tick, Tick, Tick>>
L_fence2 == <<Tick, Tick>>
L_x == <<"x">>
L_a_list == <<"a", ":", " ", "[", "]">>
L_b_true == <<"b", " ", ":", Tick, "t", "r", "u", "e", Tick>>
L_empty_doc == <<" ", "{", "}">>
L_a_oneline == <<"a", ":", " ", Tick, Tick, Tick, "x", Tick, Tick, Tick>>
L_c_float == <<"c", ":", "1", ".", "5", "e", "1">>

RawLines == {L_blank, L_a_1, L_ab_1, L_a_open3, L_b_open4, L_fence3,
             L_fence3_sp, L_fence4, L_fence2, L_x, L_a_list, L_b_true,
             L_empty_doc, L_a_oneline, L_c_float}

\* the documents of k lines
RawDocs(k) == [1..k -> RawLines]

\* loads(stc_str, impl)
CallLoads ==
    /\ pc = "idle"
    /\ \E k \in 1..MaxLines, im \in {"rust", "python"} : \E doc \in RawDocs(k) :
           Enter(join(doc, <<NL>>), im, [kind |-> "loads"])

\* load(fp): loads(fp.read()), impl left at its default
CallLoad ==
    /\ pc = "idle"
    /\ \E k \in 1..MaxLines : \E doc \in RawDocs(k) :
           Enter(join(doc, <<NL>>), "rust", [kind |-> "load"])

Init ==
    /\ rust_loads \in {"None", "available"}
    /\ InitCommon

Next == CallLoads \/ CallLoad \/ ScanLine \/ Finish \/ Return

Spec == Init /\ [][Next]_vars

-----------------------------------------------------------------------------
(* SpecKey: parse_key applied to every key over KeyChars of at most        *)
(* MaxKeyLen characters.                                                   *)

MaxKeyLen == 4
KeyChars == {"a", "_", "1", "$", "."}

UnchangedCall ==
    UNCHANGED <<rust_loads, enum_value, pc, stc_str, impl, lines, line_num,
                in_a_string, string_value, bt_count, string_key_path,
                outcome, ran, given, held, held_seen>>

ApplyParseKey ==
    /\ applied.fn = "none"
    /\ \E k \in 0..MaxKeyLen : \E key \in [1..k -> KeyChars] :
          applied' = [fn |-> "parse_key", key |-> key, out |-> parse_key(key, <<1>>)]
    /\ UNCHANGED <<parsed, assigned>>
    /\ UnchangedCall

InitKey == rust_loads = "None" /\ InitCommon

NextKey == ApplyParseKey

SpecKey == InitKey /\ [][NextKey]_vars

-----------------------------------------------------------------------------
(* SpecFinalize: finalize_dict applied to dicts of at most MaxKeys keys.   *)

MaxKeys == 3
K_0 == <<"$", "0">>
K_1 == <<"$", "1">>
K_2 == <<"$", "2">>
K_00 == <<"$", "0", "0">>
K_01 == <<"$", "0", "1">>
K_02 == <<"$", "0", "2">>
K_a == <<"a">>
K_b == <<"b">>
IndexKeys == {K_0, K_1, K_2, K_00, K_01, K_02}
FinKeys == IndexKeys \cup {K_a, K_b}

\* what the k-th inserted key may hold: a leaf that tells its place, a marker,
\* a dict that finalizes to a list, a dict with keys of both kinds (index
\* first), a dict that holds a dict with keys of both kinds (name first)
FinKinds == {"int", "marker", "list", "mixed", "deep"}
FinChild(k, kind) ==
    CASE kind = "int" -> PyInt(k)
      [] kind = "marker" -> EMPTY_LIST
      [] kind = "list" -> PyDict(<< <<K_0, PyInt(10 + k)>> >>)
      [] kind = "deep" ->
            PyDict(<< <<K_a, PyDict(<< <<K_b, PyInt(30 + k)>>, <<K_0, PyInt(40 + k)>> >>)>> >>)
      [] OTHER -> PyDict(<< <<K_0, PyInt(10 + k)>>, <<K_a, PyInt(20 + k)>> >>)

IsInjective(f) == \A i, j \in DOMAIN f : f[i] = f[j] => i = j

ApplyFinalize ==
    /\ applied.fn = "none"
    /\ \E n \in 0..MaxKeys : \E ks \in [1..n -> FinKeys] :
          /\ IsInjective(ks)
          /\ \E kinds \in [1..n -> FinKinds] :
                LET d == [k \in 1..n |-> <<ks[k], FinChild(k, kinds[k])>>]
                IN  applied' = [fn |-> "finalize_dict", d |-> d,
                                out |-> finalize_dict(d, <<>>)]
    /\ UNCHANGED <<parsed, assigned>>
    /\ UnchangedCall

NextFinalize == ApplyFinalize

SpecFinalize == InitKey /\ [][NextFinalize]_vars

-----------------------------------------------------------------------------
(* SpecFill: fill_in_value applied to one dict, at most MaxInserts times,  *)
(* with paths of at most MaxPathLen pieces.  A call that raises ends the   *)
(* sequence, as it ends loads.                                             *)

MaxInserts == 2
MaxPathLen == 3
FillPieces == {K_a, K_0}
FillValues == {PyInt(1), EMPTY_DICT}

Insert ==
    /\ applied.fn = "none" \/ (applied.fn = "fill_in_value" /\ applied.exc = NoExc)
    /\ Cardinality(assigned) < MaxInserts
    /\ \E n \in 1..MaxPathLen : \E path \in [1..n -> FillPieces] :
       \E value \in FillValues :
          LET r == fill_in_value(path, value, parsed)
          IN  /\ applied' = [fn |-> "fill_in_value", path |-> path, value |-> value,
                             before |-> parsed, had |-> assigned, exc |-> r.exc]
              /\ parsed' = r.items
              /\ assigned' = IF Raised(r) THEN assigned ELSE assigned \cup {path}
    /\ UnchangedCall

\* a new, empty dict
NewTree ==
    /\ applied.fn = "fill_in_value"
    /\ applied' = [fn |-> "none"]
    /\ parsed' = <<>>
    /\ assigned' = {}
    /\ UnchangedCall

NextFill == Insert \/ NewTree

SpecFill == InitKey /\ [][NextFill]_vars

-----------------------------------------------------------------------------
(* SpecFence: loads on a string block written the way the tests' make_fence *)
(* writes it: the key, a fence of f backticks, the content lines, the same *)
(* fence.  No content line at all is the block the fence closes at once.   *)

MinFence == 3
MaxFence == 4
MaxContent == 4

K_k == <<"k">>
CL_blank == <<>>
CL_x == <<"x">>
CL_x_sp == <<"x", " ">>
CL_inline == <<"a", Tick, "b">>
CL_ticks3 == <<Tick, Tick, Tick>>
CL_ticks3_sp == <<Tick, Tick, Tick, " ">>
CL_ticks4 == <<Tick, Tick, Tick, Tick>>
CL_b_open3 == <<"b", ":", Tick, Tick, Tick>>

ContentLines == {CL_blank, CL_x, CL_x_sp, CL_inline, CL_ticks3, CL_ticks3_sp,
                 CL_ticks4, CL_b_open3}

\* f"{key}: {ticks}\n{s}\n{ticks}", s being the content lines joined by newlines
FencedDoc(key, f, content) ==
    join(<<key \o <<":", " ">> \o Ticks(f)>> \o content \o <<Ticks(f)>>, <<NL>>)

CallFenced ==
    /\ pc = "idle"
    /\ \E f \in MinFence..MaxFence, n \in 0..MaxContent :
       \E content \in [1..n -> ContentLines] :
          Enter(FencedDoc(K_k, f, content), "python",
                [kind |-> "fenced", f |-> f, content |-> content])

NextFence == CallFenced \/ ScanLine \/ Finish \/ Return

SpecFence == InitKey /\ [][NextFence]_vars

-----------------------------------------------------------------------------
(* SpecAssign: loads on documents written from assignments: at most        *)
(* MaxAssign lines "path: value", a path being at most MaxSegs pieces      *)
(* joined by dots.                                                         *)

MaxAssign == 3
MaxSegs == 2
AssignPieces == {K_a, K_b, K_0, K_1}
AssignValues == {1, 2}

\* the paths of a document whose root is a map
AssignPaths ==
    {p \in UNION {[1..k -> AssignPieces] : k \in 1..MaxSegs} : ~(p[1][1] = "$")}

AssignLine(path, v) == join(path, <<".">>) \o <<":", " ">> \o <<DigitSeq[v + 1]>>

AssignDoc(items) ==
    join([i \in DOMAIN items |-> AssignLine(items[i].path, items[i].v)], <<NL>>)

\* p is q without its last pieces
StrictPrefix(p, q) == Len(p) < Len(q) /\ SubSeq(q, 1, Len(p)) = p

IsIndexPiece(piece) == piece[1] = "$"

\* the pieces that follow the prefix in the paths P
ChildPieces(P, prefix) ==
    {p[Len(prefix) + 1] : p \in {q \in P : StrictPrefix(prefix, q)}}

Prefixes(P) == {SubSeq(p, 1, n) : <<p, n>> \in {pn \in P \X (0..MaxSegs) : pn[2] < Len(pn[1])}}

\* unique, non-conflicting paths with contiguous 0-based list indices
WellFormedPaths(P) ==
    /\ \A p, q \in P : ~StrictPrefix(p, q)
    /\ \A prefix \in Prefixes(P) :
          LET C == ChildPieces(P, prefix)
          IN  \/ \A c \in C : ~IsIndexPiece(c)
              \/ /\ \A c \in C : IsIndexPiece(c)
                 /\ {DigitsValue(Drop(c, 1)) : c \in C} = 0..(Cardinality(C) - 1)

CallAssign ==
    /\ pc = "idle"
    /\ \E n \in 1..MaxAssign :
       \E ps \in [1..n -> AssignPaths] :
          /\ IsInjective(ps)
          /\ WellFormedPaths(Range(ps))
          /\ \E vs \in [1..n -> AssignValues] :
                LET items == [i \in 1..n |-> [path |-> ps[i], v |-> vs[i]]]
                IN  Enter(AssignDoc(items), "python",
                          [kind |-> "assign", items |-> items])

NextAssign == CallAssign \/ ScanLine \/ Finish \/ Return

SpecAssign == InitKey /\ [][NextAssign]_vars

-----------------------------------------------------------------------------
(* SpecCalls: a caller that decodes documents one after the other, keeps   *)
(* at most MaxHeld of the values returned and adds to their containers.    *)

MaxShareLines == 2
MaxHeld == 2
MaxAdded == 1

S_a_list == <<"a", ":", " ", "[", "]">>
S_b_list == <<"b", ":", " ", "[", "]">>
S_a_dict == <<"a", ":", " ", "{", "}">>
S_ab_list == <<"a", ".", "b", ":", " ", "[", "]">>
ShareLines == {S_a_list, S_b_list, S_a_dict, S_ab_list}

K_z == <<"z">>
Added == PyInt(9)

FreshObjects == [EMPTY_LIST |-> <<>>, EMPTY_DICT |-> <<>>]

\* a value as the caller reads it: a ref read through to its object
RECURSIVE Observe(_, _)
Observe(v, objects) ==
    CASE v.t = "ref" ->
            IF v.obj = "EMPTY_LIST" THEN PyList(objects.EMPTY_LIST)
            ELSE PyDict(objects.EMPTY_DICT)
      [] v.t = "dict" ->
            PyDict([i \in DOMAIN v.items |->
                      <<v.items[i][1], Observe(v.items[i][2], objects)>>])
      [] v.t = "list" ->
            PyList([i \in DOMAIN v.items |-> Observe(v.items[i], objects)])
      [] OTHER -> v

IsContainer(v) == v.t \in {"dict", "list", "ref"}

\* the key paths, from a returned dict, to the containers in it
RECURSIVE ContainerPaths(_)
ContainerPaths(v) ==
    IF v.t # "dict" THEN {<<>>}
    ELSE {<<>>} \cup
         UNION {{<<v.items[i][1]>> \o cp : cp \in ContainerPaths(v.items[i][2])} :
                  i \in {j \in DOMAIN v.items : IsContainer(v.items[j][2])}}

RECURSIVE ValueAt(_, _)
ValueAt(v, cp) ==
    IF cp = <<>> THEN v ELSE ValueAt(Get(v.items, cp[1]), Tail(cp))

\* lst.append(9) or dct["z"] = 9 on the container at cp
RECURSIVE AddAt(_, _)
AddAt(v, cp) ==
    IF cp = <<>>
    THEN IF v.t = "list" THEN PyList(Append(v.items, Added))
         ELSE PyDict(Put(v.items, K_z, Added))
    ELSE PyDict(Put(v.items, cp[1], AddAt(Get(v.items, cp[1]), Tail(cp))))

CallShared ==
    /\ pc = "idle"
    /\ \E k \in 1..MaxShareLines : \E doc \in [1..k -> ShareLines] :
          Enter(join(doc, <<NL>>), "python", [kind |-> "loads"])

\* the caller keeps the value returned
Keep ==
    /\ pc = "done"
    /\ ~Raised(outcome)
    /\ Len(held) < MaxHeld
    /\ held' = Append(held, outcome.value)
    /\ held_seen' = Append(held_seen, Observe(outcome.value, FreshObjects))
    /\ pc' = "idle"
    /\ stc_str' = <<>>
    /\ impl' = "rust"
    /\ lines' = <<>>
    /\ line_num' = -1
    /\ SetLocals(FreshLocals)
    /\ outcome' = NoOutcome
    /\ ran' = NotRun
    /\ given' = [kind |-> "none"]
    /\ UNCHANGED <<rust_loads, enum_value, applied, assigned>>

\* the caller adds to one container of one value it holds
Mutate ==
    /\ pc = "idle"
    /\ \E i \in DOMAIN held : \E cp \in ContainerPaths(held[i]) :
          LET target == ValueAt(held[i], cp)
          IN  /\ held_seen' = [held_seen EXCEPT ![i] = AddAt(@, cp)]
              /\ IF target.t = "ref"
                 THEN /\ Len(enum_value[target.obj]) < MaxAdded
                      /\ enum_value' =
                           [enum_value EXCEPT ![target.obj] =
                              IF target.obj = "EMPTY_LIST"
                              THEN Append(@, Added)
                              ELSE Put(@, K_z, Added)]
                      /\ UNCHANGED held
                 ELSE /\ ~Has(target.items, K_z)
                      /\ held' = [held EXCEPT ![i] = AddAt(@, cp)]
                      /\ UNCHANGED enum_value
    /\ UNCHANGED <<rust_loads, pc, stc_str, impl, lines, line_num, in_a_string,
                   string_value, bt_count, string_key_path, parsed, outcome,
                   ran, given, applied, assigned>>

NextCalls == CallShared \/ ScanLine \/ Finish \/ Keep \/ Return \/ Mutate

SpecCalls == InitKey /\ [][NextCalls]_vars

-----------------------------------------------------------------------------
(* SpecOrder: loads on documents written from at most MaxOrdered           *)
(* assignments, one after the other: an integer, an empty-list marker, or  *)
(* a string block of one content line, at a path of one or two names.      *)

MaxOrdered == 3

OrderPaths == {<<K_a>>, <<K_b>>, <<K_a, K_a>>, <<K_a, K_b>>, <<K_b, K_a>>, <<K_b, K_b>>}
OrderKinds == {"int", "marker", "block"}

\* the lines of the i-th assignment
OrderLines(path, kind, i) ==
    LET key == join(path, <<".">>) \o <<":", " ">>
    IN  CASE kind = "int" -> <<key \o <<DigitSeq[i + 1]>> >>
          [] kind = "marker" -> <<key \o <<"[", "]">> >>
          [] OTHER -> <<key \o Ticks(MinFence), <<"x", DigitSeq[i + 1]>>, Ticks(MinFence)>>

RECURSIVE OrderDocLines(_, _)
OrderDocLines(items, i) ==
    IF i > Len(items) THEN <<>>
    ELSE OrderLines(items[i].path, items[i].kind, i) \o OrderDocLines(items, i + 1)

OrderDoc(items) == join(OrderDocLines(items, 1), <<NL>>)

CallOrdered ==
    /\ pc = "idle"
    /\ \E n \in 1..MaxOrdered :
       \E ps \in [1..n -> OrderPaths], ks \in [1..n -> OrderKinds] :
          LET items == [i \in 1..n |-> [path |-> ps[i], kind |-> ks[i]]]
          IN  Enter(OrderDoc(items), "python", [kind |-> "ordered", items |-> items])

NextOrder == CallOrdered \/ ScanLine \/ Finish \/ Return

SpecOrder == InitKey /\ [][NextOrder]_vars

-----------------------------------------------------------------------------
(* SpecOpen: loads on a document whose first line is the key, a run of f   *)
(* backticks and a remainder of at most MaxRem parts, followed by at most  *)
(* MaxTail lines.                                                          *)

MaxRem == 2
MaxTail == 2

RemParts == {<<"x">>, <<" ">>, <<Tick>>, Ticks(MinFence), <<":", " ", "1">>}
TailLines == {CL_x} \cup {Ticks(i) : i \in MinFence..(MaxFence + 1)}

RECURSIVE Flatten(_)
Flatten(parts) == IF parts = <<>> THEN <<>> ELSE Head(parts) \o Flatten(Tail(parts))

OpeningDoc(key, f, rem, tail) ==
    join(<<key \o <<":", " ">> \o Ticks(f) \o rem>> \o tail, <<NL>>)

CallOpening ==
    /\ pc = "idle"
    /\ \E f \in MinFence..MaxFence, r \in 0..MaxRem, t \in 0..MaxTail :
       \E parts \in [1..r -> RemParts], tail \in [1..t -> TailLines] :
          Enter(OpeningDoc(K_k, f, Flatten(parts), tail), "python",
                [kind |-> "opening", f |-> f, rem |-> Flatten(parts), tail |-> tail])

NextOpen == CallOpening \/ ScanLine \/ Finish \/ Return

SpecOpen == InitKey /\ [][NextOpen]_vars

-----------------------------------------------------------------------------
(* The claims.                                                             *)

\* what a dict holds at a path; PyNone when nothing
RECURSIVE NodeAt(_, _)
NodeAt(items, path) ==
    IF ~Has(items, path[1]) THEN PyNone
    ELSE IF Len(path) = 1 THEN Get(items, path[1])
    ELSE IF Get(items, path[1]).t # "dict" THEN PyNone
    ELSE NodeAt(Get(items, path[1]).items, Tail(path))

IsParseError(e) == e.type = "STCParseError"

IsDuplicateLeafError(e) ==
    IsParseError(e) /\ e.what = "Key is set at least two values."

IsConflictError(e) ==
    /\ IsParseError(e)
    /\ e.what \in
         {"Key is set both a value and at least one list item / dict attribute.",
          "Key is set both a value directly and at least one list item / dict attribute."}

IsListGapError(e) ==
    IsParseError(e) /\ e.what = "is set as a list, but not all indices are present."

IsInvalidKeyError(e) ==
    /\ IsParseError(e)
    /\ e.what \in {"Invalid key. Key must be a valid identifier.",
                   "Invalid key. List index must be $numeric.",
                   "Negative list index in key."}

\* C3: an insert of a leaf at a key path that already holds a leaf fails with
\* the duplicate-leaf ParseError, whatever the length of the path.
C3_DuplicateLeafIsParseError ==
    (applied.fn = "fill_in_value" /\ applied.path \in applied.had)
        => IsDuplicateLeafError(applied.exc)

\* C4: no successfully inserted path is a strict prefix of another; an insert
\* below a path that holds a leaf (a marker leaf too), and an insert at a path
\* that holds a container, both fail with the leaf/container ParseError.
C4_LeafContainerExclusion ==
    /\ \A p, q \in assigned : ~StrictPrefix(p, q)
    /\ applied.fn = "fill_in_value" =>
          /\ (\E p \in applied.had : StrictPrefix(p, applied.path))
                => IsConflictError(applied.exc)
          /\ (\E q \in applied.had : StrictPrefix(applied.path, q))
                => IsConflictError(applied.exc)

C4_Witness ==
    /\ applied.fn = "fill_in_value"
    /\ IsConflictError(applied.exc)
    /\ \E p \in applied.had :
          /\ StrictPrefix(p, applied.path)
          /\ NodeAt(applied.before, p) = EMPTY_DICT

\* the dicts C6 is about: every key is "$" and decimal digits, every value a leaf
AllIndexLeaves(d) ==
    /\ d # <<>>
    /\ \A i \in DOMAIN d :
          /\ d[i][1][1] = "$"
          /\ isnumeric(Drop(d[i][1], 1))
          /\ d[i][2].t = "int"

IndexDenoted(key) == DigitsValue(Drop(key, 1))

IndicesExact(d) ==
    /\ {IndexDenoted(d[i][1]) : i \in DOMAIN d} = 0..(Len(d) - 1)
    /\ \A i, j \in DOMAIN d :
          IndexDenoted(d[i][1]) = IndexDenoted(d[j][1]) => i = j

\* C6: finalize_dict on a dict of n index keys returns a list exactly when the
\* indices denoted are 0..n-1 without repetition, the list then holding each
\* value at its index; in every other case it fails with the list gap error.
C6_ListIndexExact ==
    (applied.fn = "finalize_dict" /\ AllIndexLeaves(applied.d)) =>
        IF IndicesExact(applied.d)
        THEN /\ ~Raised(applied.out)
             /\ applied.out.value.t = "list"
             /\ Len(applied.out.value.items) = Len(applied.d)
             /\ \A i \in DOMAIN applied.d :
                   applied.out.value.items[IndexDenoted(applied.d[i][1]) + 1]
                       = applied.d[i][2]
        ELSE IsListGapError(applied.out.exc)

\* the grammar of a key path: pieces separated by ".", each a Name or an Index
IsName(piece) ==
    /\ piece # <<>>
    /\ piece[1] \in Letters \cup {"_"}
    /\ \A i \in DOMAIN piece : piece[i] \in Letters \cup Digits \cup {"_"}

IsIndex(piece) ==
    /\ Len(piece) >= 2
    /\ piece[1] = "$"
    /\ \A i \in 2..Len(piece) : piece[i] \in Digits

\* the pieces of a key, by the places of its dots
DotPlaces(key) == {0, Len(key) + 1} \cup {i \in DOMAIN key : key[i] = "."}
PiecesOf(key) ==
    {SubSeq(key, i + 1, j - 1) : <<i, j>> \in
        {ij \in DotPlaces(key) \X DotPlaces(key) :
            ij[1] < ij[2] /\ \A m \in DotPlaces(key) : ~(ij[1] < m /\ m < ij[2])}}

InKeyGrammar(key) == \A piece \in PiecesOf(key) : IsName(piece) \/ IsIndex(piece)

\* C9: parse_key accepts exactly the keys of the grammar, returns the pieces
\* of an accepted key in order, and fails with the invalid-key ParseError on
\* every other key.
C9_KeyGrammar ==
    applied.fn = "parse_key" =>
        IF InKeyGrammar(applied.key)
        THEN /\ ~Raised(applied.out)
             /\ join(applied.out.path, <<".">>) = applied.key
             /\ \A i \in DOMAIN applied.out.path :
                   ~Contains(applied.out.path[i], ".")
        ELSE IsInvalidKeyError(applied.out.exc)


IsEmptyBlockError(e) == IsParseError(e) /\ e.what = "Empty string block."

AllTicks(line) == line # <<>> /\ \A i \in DOMAIN line : line[i] = Tick

FencedDone == pc = "done" /\ given.kind = "fenced"

\* {key: text}
OneString(key, text) == PyDict(<< <<key, PyStr(text)>> >>)

Returned(v) == outcome = [exc |-> NoExc, value |-> v]

C7_EmptyBlockRule ==
    FencedDone =>
        /\ (given.content = <<>> \/ (given.content # <<>>
                /\ rstrip(given.content[1]) = Ticks(given.f)))
              => /\ IsEmptyBlockError(outcome.exc)
                 /\ outcome.exc.ln = <<2>>
                 /\ outcome.value = PyNone
        /\ given.content = <<CL_blank>> => Returned(OneString(K_k, <<>>))

C7_Witness ==
    /\ FencedDone
    /\ given.content = <<>>
    /\ IsEmptyBlockError(outcome.exc)

\* the first content line that closes a block opened with f backticks
FirstClosing(content, f) ==
    CHOOSE j \in DOMAIN content :
        /\ rstrip(content[j]) = Ticks(f)
        /\ \A i \in 1..(j - 1) : rstrip(content[i]) # Ticks(f)

HasExactFenceLine == \E i \in DOMAIN given.content : given.content[i] = Ticks(given.f)

\* C8 as written: content with a line of exactly f backticks, wrapped in
\* fences of f backticks, never decodes to a value.
C8_AlwaysFailsAsWritten ==
    (FencedDone /\ HasExactFenceLine) => Raised(outcome)

\* C8 amended: such a document never decodes to {k: C}; decode fails, or
\* returns a value in which k is only the content before the first line that
\* closes the block.
C8_NeverTheContent ==
    (FencedDone /\ HasExactFenceLine) =>
        \/ Raised(outcome)
        \/ /\ outcome.value.t = "dict"
           /\ Has(outcome.value.items, K_k)
           /\ Get(outcome.value.items, K_k) =
                PyStr(join(SubSeq(given.content, 1,
                                  FirstClosing(given.content, given.f) - 1), <<NL>>))
           /\ Get(outcome.value.items, K_k) # PyStr(join(given.content, <<NL>>))

C8_Witness ==
    /\ FencedDone
    /\ HasExactFenceLine
    /\ ~Raised(outcome)
    /\ outcome.value.t = "dict"


\* a value with the order of dict keys left out, as == compares dicts
RECURSIVE Abs(_)
Abs(v) ==
    CASE v.t = "dict" ->
            [t |-> "map",
             m |-> [k \in Range(Keys(v.items)) |-> Abs(Get(v.items, k))]]
      [] v.t = "list" -> [t |-> "list", items |-> [i \in DOMAIN v.items |-> Abs(v.items[i])]]
      [] OTHER -> v

\* the structure the assignments A (path -> int) imply below a prefix
RECURSIVE Implied(_, _)
Implied(A, prefix) ==
    LET C == ChildPieces(DOMAIN A, prefix)
        Sub(c) == IF (prefix \o <<c>>) \in DOMAIN A
                  THEN PyInt(A[prefix \o <<c>>])
                  ELSE Implied(A, prefix \o <<c>>)
    IN  IF \A c \in C : IsIndexPiece(c)
        THEN [t |-> "list",
              items |-> [i \in 1..Cardinality(C) |->
                           Sub(CHOOSE c \in C : DigitsValue(Drop(c, 1)) = i - 1)]]
        ELSE [t |-> "map", m |-> [c \in C |-> Sub(c)]]

AssignMap(items) ==
    [p \in {items[i].path : i \in DOMAIN items} |->
        items[CHOOSE i \in DOMAIN items : items[i].path = p].v]

Reversed(items) == [i \in DOMAIN items |-> items[Len(items) + 1 - i]]

\* C1: decoding well-formed assignments succeeds and returns the structure
\* their paths imply, the same for the lines in the opposite order.
C1_OrderIndependence ==
    (pc = "done" /\ given.kind = "assign") =>
        /\ ~Raised(outcome)
        /\ Abs(outcome.value) = Implied(AssignMap(given.items), <<>>)
        /\ Abs(loads_python(AssignDoc(Reversed(given.items))).value)
              = Abs(outcome.value)

\* C5: what the caller reads in each value it holds is what it was returned,
\* changed only by what the caller itself added to that value's containers.
C5_NoSharedState ==
    \A i \in DOMAIN held : Observe(held[i], enum_value) = held_seen[i]

\* C10: with no engine, a call in primary mode (load's calls too) ends with
\* the engine-unavailable error and runs nothing of the core; a call in
\* fallback mode does not consult the engine and runs the core.
C10_EngineSelection ==
    pc # "idle" =>
        /\ given.kind = "load" => impl = "rust"
        /\ (impl = "rust" /\ rust_loads = "None") =>
              /\ pc = "done"
              /\ outcome.exc.type = "NotImplementedError"
              /\ ~IsParseError(outcome.exc)
              /\ outcome.value = PyNone
              /\ ran = [engine |-> TRUE, core |-> FALSE]
              /\ lines = <<>> /\ line_num = -1 /\ parsed = <<>>
        /\ impl = "python" =>
              /\ ran = [engine |-> FALSE, core |-> TRUE]
              /\ outcome.exc.type # "NotImplementedError"
              /\ pc = "done" => outcome = loads_python(stc_str)

C10_Witness ==
    /\ pc = "done"
    /\ given.kind = "load"
    /\ rust_loads = "None"
    /\ strip(stc_str) = <<"{", "}">>
    /\ outcome.exc.type = "NotImplementedError"


\* C11: inside a string block opened with n backticks, a turn of the loop
\* leaves the block (or ends the call) only on a line that is exactly n
\* backticks once its trailing whitespace is removed; a line that is solely
\* more or fewer than n backticks is appended, with a newline, to the content
\* and the scanner stays in the block.
C11_ClosingFenceExact ==
    [][(pc = "scan" /\ in_a_string /\ line_num' = line_num + 1) =>
          LET line == lines[line_num' + 1]
          IN  /\ (~in_a_string' \/ pc' = "done")
                    => rstrip(line) = Ticks(bt_count)
              /\ (AllTicks(line) /\ Len(line) # bt_count)
                    => /\ pc' = "scan"
                       /\ in_a_string'
                       /\ bt_count' = bt_count
                       /\ string_key_path' = string_key_path
                       /\ string_value' = string_value \o line \o <<NL>>
                       /\ parsed' = parsed]_vars

C11_Witness ==
    /\ pc = "scan"
    /\ in_a_string
    /\ bt_count = 3
    /\ string_value = L_fence4 \o <<NL>> \o L_fence2 \o <<NL>>

\* the 1-based number of the line that opened the block the scan of ls ends
\* in; <<>> when the scan raises or ends outside a block
RECURSIVE OpenedAt(_, _, _, _)
OpenedAt(ls, n, L, at) ==
    IF n = Len(ls) THEN at
    ELSE LET r == loop_body(ls[n + 1], n, L)
         IN  IF Raised(r) THEN <<>>
             ELSE OpenedAt(ls, n + 1, r.L,
                           IF ~r.L.in_a_string THEN <<>>
                           ELSE IF ~L.in_a_string THEN <<n + 1>>
                           ELSE at)

IsUnclosedBlockError(e) == IsParseError(e) /\ e.what = "Unclosed string block."

\* C12: a call whose input ends inside a string block fails with the
\* unterminated-block ParseError, and the line that error names is the line
\* that opened the block, however many content lines follow it.
C12_UnclosedNamesOpeningLine ==
    (pc = "done" /\ ran.core /\ lines # <<>>
        /\ OpenedAt(lines, 0, FreshLocals, <<>>) # <<>>)
        => /\ IsUnclosedBlockError(outcome.exc)
           /\ outcome.exc.ln = OpenedAt(lines, 0, FreshLocals, <<>>)


IsMixedError(e) == IsParseError(e) /\ e.what = "is set both as a list and a dict."

\* a container with an Index child and a Name child
MixedKeys(d) ==
    /\ \E i \in DOMAIN d : IsIndex(d[i][1])
    /\ \E i \in DOMAIN d : IsName(d[i][1])

RECURSIVE HasMixed(_)
HasMixed(d) ==
    \/ MixedKeys(d)
    \/ \E i \in DOMAIN d : d[i][2].t = "dict" /\ HasMixed(d[i][2].items)

\* some container whose keys are all Index does not hold exactly 0..n-1
RECURSIVE HasIndexDefect(_)
HasIndexDefect(d) ==
    \/ /\ d # <<>>
       /\ \A i \in DOMAIN d : IsIndex(d[i][1])
       /\ ~IndicesExact(d)
    \/ \E i \in DOMAIN d : d[i][2].t = "dict" /\ HasIndexDefect(d[i][2].items)

\* C13 as written: a tree with a container of both kinds of key fails with
\* the mixed list/dict ParseError.
C13_MixedIsMixedErrorAsWritten ==
    (applied.fn = "finalize_dict" /\ HasMixed(applied.d))
        => IsMixedError(applied.out.exc)

\* C13 amended: such a tree never finalizes to a value; it fails with a
\* ParseError, which is the mixed list/dict error, or the list-index error of
\* a container met earlier in the walk; it is the mixed error whenever every
\* all-Index container of the tree holds exactly the indices 0..n-1.
C13_MixedNeverFinalizes ==
    (applied.fn = "finalize_dict" /\ HasMixed(applied.d)) =>
        /\ Raised(applied.out)
        /\ applied.out.value = PyNone
        /\ IsMixedError(applied.out.exc) \/ IsListGapError(applied.out.exc)
        /\ ~HasIndexDefect(applied.d) => IsMixedError(applied.out.exc)

C13_Witness ==
    /\ applied.fn = "finalize_dict"
    /\ applied.d = << <<K_0, FinChild(1, "deep")>>, <<K_1, FinChild(2, "int")>> >>
    /\ IsMixedError(applied.out.exc)


\* new is old with entries added: the keys of old keep their places, a leaf
\* keeps its value, a dict is changed the same way
RECURSIVE Extends(_, _)
Extends(old, new) ==
    /\ Len(old) <= Len(new)
    /\ \A i \in DOMAIN old :
          /\ new[i][1] = old[i][1]
          /\ IF old[i][2].t = "dict"
             THEN new[i][2].t = "dict" /\ Extends(old[i][2].items, new[i][2].items)
             ELSE new[i][2] = old[i][2]

\* new is old finalized in place: the same keys in the same places, a marker
\* replaced by the object it stands for, a dict replaced by its finalized
\* dict or list, every other leaf as it was
RECURSIVE FinalizedInPlace(_, _)
FinalizedInPlace(old, new) ==
    /\ Len(old) = Len(new)
    /\ \A i \in DOMAIN old :
          /\ new[i][1] = old[i][1]
          /\ CASE old[i][2].t = "dict" ->
                    \/ new[i][2].t = "list"
                    \/ /\ new[i][2].t = "dict"
                       /\ FinalizedInPlace(old[i][2].items, new[i][2].items)
               [] old[i][2].t = "EmptyObject" -> new[i][2] = ValueOf(old[i][2])
               [] OTHER -> new[i][2] = old[i][2]

\* C14 as written: no step of a call, finalization included, deletes an entry
\* of the tree or replaces the value stored at a key.
C14_InsertOnlyAsWritten ==
    [][pc = "scan" => Extends(parsed, parsed')]_vars

\* C14 amended: every turn of the scan changes the tree only by adding
\* entries; finalization adds and deletes no key, and replaces in place the
\* value of each marker by the container it stands for and of each dict by
\* its finalized form.
C14_InsertOnlyScan ==
    [][pc = "scan" =>
          IF line_num' = line_num + 1
          THEN Extends(parsed, parsed')
          ELSE /\ pc' = "done"
               /\ ~Raised(outcome') => /\ FinalizedInPlace(parsed, parsed')
                                       /\ outcome'.value = PyDict(parsed')
               /\ Raised(outcome') => parsed' = parsed]_vars

C14_Witness ==
    /\ pc = "done"
    /\ given.kind = "ordered"
    /\ ~Raised(outcome)
    /\ parsed = << <<K_a, PyDict(<< <<K_b, ValueOf(EMPTY_LIST)>> >>)>>,
                   <<K_b, ValueOf(EMPTY_LIST)>> >>


\* the pieces that follow the prefix in the paths of the assignments, each
\* once, in the order of the assignments that first name them
RECURSIVE FirstKeys(_, _, _, _)
FirstKeys(items, prefix, i, acc) ==
    IF i > Len(items) THEN acc
    ELSE LET p == items[i].path
             piece == p[Len(prefix) + 1]
         IN  IF (Len(prefix) = Len(p) - 1 \/ StrictPrefix(prefix, p))
                /\ SubSeq(p, 1, Len(prefix)) = prefix
                /\ piece \notin Range(acc)
             THEN FirstKeys(items, prefix, i + 1, Append(acc, piece))
             ELSE FirstKeys(items, prefix, i + 1, acc)

RECURSIVE InTextOrder(_, _, _)
InTextOrder(v, items, prefix) ==
    /\ Keys(v.items) = FirstKeys(items, prefix, 1, <<>>)
    /\ \A i \in DOMAIN v.items :
          v.items[i][2].t = "dict"
             => InTextOrder(v.items[i][2], items, prefix \o <<v.items[i][1]>>)

\* C15: the map a document decodes to lists its keys, at every level, in the
\* order in which the text first names them, a string block counting where
\* its lines stand.
C15_MapKeyOrder ==
    (pc = "done" /\ given.kind = "ordered" /\ ~Raised(outcome)) =>
        /\ outcome.value.t = "dict"
        /\ InTextOrder(outcome.value, given.items, <<>>)

C15_Witness ==
    /\ pc = "done"
    /\ given.kind = "ordered"
    /\ ~Raised(outcome)
    /\ given.items = <<[path |-> <<K_b, K_b>>, kind |-> "block"],
                       [path |-> <<K_a>>, kind |-> "int"],
                       [path |-> <<K_b, K_a>>, kind |-> "marker"]>>
    /\ Keys(outcome.value.items) = <<K_b, K_a>>
    /\ Keys(Get(outcome.value.items, K_b).items) = <<K_b, K_a>>


\* the lines from..to of ls, each followed by one newline
RECURSIVE ContentSince(_, _, _)
ContentSince(ls, from, to) ==
    IF from > to THEN <<>>
    ELSE ls[from] \o <<NL>> \o ContentSince(ls, from + 1, to)

\* the run of backticks a text begins with
RECURSIVE LeadingTicks(_)
LeadingTicks(s) ==
    IF s # <<>> /\ s[1] = Tick THEN 1 + LeadingTicks(Tail(s)) ELSE 0

\* Normal or InString, as the fields stand before the next line is processed
ScannerMode ==
    LET at == OpenedAt(SubSeq(lines, 1, line_num + 1), 0, FreshLocals, <<>>)
    IN  /\ in_a_string \in BOOLEAN
        /\ ~in_a_string =>
              /\ bt_count = -1
              /\ string_key_path = <<>>
              /\ string_value = <<>>
              /\ at = <<>>
        /\ in_a_string =>
              /\ bt_count >= MinFence
              /\ at # <<>>
              /\ bt_count = LeadingTicks(strip(split_once(lines[at[1]], ":")[2]))
              /\ Len(string_key_path) = 1
              /\ string_key_path[1] # <<>>
              /\ \A i \in DOMAIN string_key_path[1] :
                    IsName(string_key_path[1][i]) \/ IsIndex(string_key_path[1][i])
              /\ join(string_key_path[1], <<".">>)
                    = strip(split_once(lines[at[1]], ":")[1])
              /\ string_value = ContentSince(lines, at[1] + 1, line_num + 1)

\* C16: before every line is processed the scanner is Normal (fence length
\* -1, no pending key path, empty accumulator) or InString (fence length at
\* least 3, the validated key path of the opening line, the accumulator the
\* content lines since the opening line, each with its newline); a turn that
\* closes a block and goes on leaves all three fields reset.
C16_ScannerMode ==
    /\ [](pc = "scan" => ScannerMode)
    /\ [][(pc = "scan" /\ in_a_string /\ pc' = "scan" /\ ~in_a_string') =>
             /\ bt_count' = -1
             /\ string_key_path' = <<>>
             /\ string_value' = <<>>]_vars

C16_Witness ==
    /\ pc = "scan"
    /\ lines = <<L_b_open4, L_fence3, L_fence4>>
    /\ line_num = 2
    /\ ~in_a_string
    /\ bt_count = -1
    /\ parsed = << <<K_b, PyStr(L_fence3)>> >>


\* C17: a call of fill_in_value that raises leaves the dict exactly as it was
\* before the call: no entry added, no container created on the way.
C17_FailedInsertAtomic ==
    (applied.fn = "fill_in_value" /\ applied.exc # NoExc) =>
        /\ parsed = applied.before
        /\ assigned = applied.had

C17_Witness ==
    /\ applied.fn = "fill_in_value"
    /\ IsConflictError(applied.exc)
    /\ applied.path = <<K_a, K_0, K_a>>
    /\ applied.before = << <<K_a, PyDict(<< <<K_0, PyInt(1)>> >>)>> >>
    /\ parsed = applied.before


IsInvalidValueError(e) == IsParseError(e) /\ e.what = "Invalid value."
IsMissingColonError(e) == IsParseError(e) /\ e.what = "Line missing colon."

\* the first of the lines that closes a block opened with n backticks; 0 when
\* none does
FirstClose(ls, n) ==
    IF \E j \in DOMAIN ls : rstrip(ls[j]) = Ticks(n)
    THEN CHOOSE j \in DOMAIN ls :
            /\ rstrip(ls[j]) = Ticks(n)
            /\ \A i \in 1..(j - 1) : rstrip(ls[i]) # Ticks(n)
    ELSE 0

\* C18: a value that begins with a run of n >= 3 backticks opens a block of
\* fence length n whatever follows the run on the line: the remainder is not
\* reported as an error and is no part of the content; the opening line alone
\* gives no value, and the outcome is that of the same lines after an opening
\* line with the bare run.
C18_OpeningRemainder ==
    (pc = "done" /\ given.kind = "opening") =>
        LET n == given.f + LeadingTicks(given.rem)
            j == FirstClose(given.tail, n)
        IN  /\ ~IsInvalidValueError(outcome.exc)
            /\ outcome = loads_python(OpeningDoc(K_k, n, <<>>, given.tail))
            /\ j = 0 => IsUnclosedBlockError(outcome.exc)
            /\ j = 1 => IsEmptyBlockError(outcome.exc)
            /\ (j > 1 /\ j < Len(given.tail)) => IsMissingColonError(outcome.exc)
            /\ (j > 1 /\ j = Len(given.tail)) =>
                  Returned(OneString(K_k, join(SubSeq(given.tail, 1, j - 1), <<NL>>)))

C18_Witness ==
    /\ pc = "done"
    /\ given.kind = "opening"
    /\ given.f = MinFence
    /\ given.rem = <<"x">> \o Ticks(MinFence)
    /\ given.tail = <<CL_x, Ticks(MinFence)>>
    /\ Returned(OneString(K_k, CL_x))

=============================================================================
